---- MODULE Spec2Model ----
(***************************************************************************)
(* Single-hop HTTP reverse proxy (src/main.rs).                            *)
(*                                                                         *)
(* The state is what main sets up (the environment it reads, the port it   *)
(* resolves, the listener, the workers and the Client each builds) and the *)
(* data one invocation of proxy_handler works on, per in-flight request:   *)
(* the inbound request, the outbound calls issued to the upstream, the     *)
(* upstream's answer, the response builder and the response returned.      *)
(* Strings that the code takes apart or joins (the request URI, the target *)
(* URL) are sequences of characters; header collections are multimaps from *)
(* a name to the sequence of its values.                                   *)
(*                                                                         *)
(* Spec and LiveSpec handle full requests one after another on a running   *)
(* server; MainSpec starts at the process start; ConcSpec has two          *)
(* requests in flight; IdemSpec adds a caller that keeps one answer.       *)
(***************************************************************************)
EXTENDS Integers, Sequences, FiniteSets, TLC

VARIABLES
    api_gateway_url,  \* web::Data<String>: the upstream base URL
    phase,            \* the server process: "starting", "serving", "exited"
    pc,               \* per request: position of its handler invocation
    req,              \* per request: the inbound HttpRequest + Payload
    calls,            \* per request: outbound calls issued through the client
    up,               \* per request: what the outbound call came back with
    response,         \* per request: the HttpResponseBuilder of the Ok arm
    resp,             \* per request: responses returned by the handler
    stderr,           \* lines written by eprintln!
    dotfile,          \* the variables the .env file defines
    env,              \* the process environment
    main_pc,          \* position of main
    server_port,      \* main's server_port
    bound,            \* the address the listener is bound to, <<>> if none
    worker_client,    \* per worker: the Client its App holds, 0 if not built
    nclients,         \* number of Client::new() calls so far
    client,           \* per request: the web::Data<Client> handed to it
    saved             \* an earlier exchange a caller has kept for comparison

\* What main and the workers set up.
startup ==
    <<dotfile, env, main_pc, server_port, bound, worker_client, nclients>>

vars ==
    <<api_gateway_url, phase, pc, req, calls, up, response, resp, stderr,
      startup, client, saved>>

(***************************************************************************)
(* Bounds and input domains                                                *)
(***************************************************************************)
\* At most this many header lines in an inbound request / upstream response.
MaxHdrs == 2

\* Request slots (handler invocations that can be in flight).
Reqs == {"r1", "r2"}

Methods == {"GET", "POST", "OPTIONS"}

\* Request URIs as received: path, optionally followed by ?query.
Uris ==
    { <<"/">>,
      <<"/", "?", "q">>,
      <<"/", "a">>,
      <<"/", "a", "?", "q">>,
      <<"/", "a", "/", "b">> }

InHeaderLines ==
    { <<"accept", "v1">>, <<"accept", "v2">>, <<"cookie", "v1">> }

UpHeaderLines ==
    { <<"set-cookie", "v1">>, <<"set-cookie", "v2">>,
      <<"access-control-allow-origin", "https://site">> }

Bodies == {"", "b1"}

UpstreamStatuses == {200, 404}

ErrorDetails == {"connection refused", "timed out"}

BaseUrls == { <<"http://gw">> }

\* Worker threads of the server.
Workers == {"w1", "w2"}

\* Plain requests: no headers, no body.
SmallRequests ==
    [method : Methods, uri : { <<"/">>, <<"/", "a">> },
     headers : { <<>> }, body : {""}]

SmallUpHeaders ==
    { <<>>, << <<"set-cookie", "v1">> >>, << <<"set-cookie", "v2">> >> }

\* An environment variable: not set, or set to a value.
UnsetUrl == [set |-> FALSE, val |-> <<>>]

UnsetPort == [set |-> FALSE, val |-> ""]

Var(v) == [set |-> TRUE, val |-> v]

\* Environments the process is started in, and .env files beside it.
Envs ==
    [API_GATEWAY_URL : {UnsetUrl, Var(<<>>), Var(<<"http://gw">>)},
     PORT : {UnsetPort, Var(""), Var("3000")},
     SERVER_PORT : {UnsetPort, Var("9000")}]

DotFiles ==
    [API_GATEWAY_URL : {UnsetUrl, Var(<<"http://gw">>)},
     PORT : {UnsetPort, Var("4000")},
     SERVER_PORT : {UnsetPort}]

SeqsUpTo(S, n) == UNION { [1..k -> S] : k \in 0..n }

(***************************************************************************)
(* Header collections                                                      *)
(***************************************************************************)
\* Header names are case-insensitive; they are kept in lower case.
NameOrder ==
    << "accept", "cookie", "set-cookie", "content-type",
       "access-control-allow-origin", "access-control-allow-methods",
       "access-control-allow-headers" >>

HeaderNames == { NameOrder[i] : i \in 1..Len(NameOrder) }

EmptyMap == [n \in HeaderNames |-> <<>>]

\* HeaderMap::append: add a value, keeping the ones already there.
append_header(m, k, v) == [m EXCEPT ![k] = Append(@, v)]

\* HeaderMap::insert: replace every value of that name by this one.
insert_header(m, k, v) == [m EXCEPT ![k] = <<v>>]

\* Iterating a header collection: every (name, value), the values of one
\* name in their order.
RECURSIVE IterFrom(_, _)
IterFrom(m, i) ==
    IF i > Len(NameOrder) THEN <<>>
    ELSE [j \in 1..Len(m[NameOrder[i]]) |->
              <<NameOrder[i], m[NameOrder[i]][j]>>]
         \o IterFrom(m, i + 1)

Iter(m) == IterFrom(m, 1)

(***************************************************************************)
(* proxy_handler: the pieces                                               *)
(***************************************************************************)
Requests ==
    [method : Methods, uri : Uris,
     headers : SeqsUpTo(InHeaderLines, MaxHdrs), body : Bodies]

NoReq == [method |-> "", uri |-> <<>>, headers |-> <<>>, body |-> ""]

NoUp == [kind |-> "none", status |-> 0, headers |-> <<>>, body |-> "",
         detail |-> ""]

NoBuilder == [status |-> 0, headers |-> EmptyMap]

NoSaved ==
    [kept |-> FALSE, req |-> NoReq, up |-> NoUp, status |-> 0, body |-> "",
     logged |-> {}]

\* Index of the first "?" of a URI, 0 when it has none.
QueryStart(uri) ==
    IF \E i \in 1..Len(uri) : uri[i] = "?"
    THEN CHOOSE i \in 1..Len(uri) :
             uri[i] = "?" /\ \A j \in 1..(i - 1) : uri[j] # "?"
    ELSE 0

\* req.path(): the URI up to the query string.
PathOf(uri) ==
    IF QueryStart(uri) = 0 THEN uri ELSE SubSeq(uri, 1, QueryStart(uri) - 1)

\* req.match_info().query("tail") under the route "/{tail:.*}": the path
\* after the leading slash.
MatchTail(uri) == SubSeq(PathOf(uri), 2, Len(PathOf(uri)))

\* format!("{}/{}", api_gateway_url, path)
FormatUrl(base, path) == base \o <<"/">> \o path

\* The two early returns taken in the other order.
Classify_preflight_first(method, path) ==
    IF method = "OPTIONS" THEN "preflight"
    ELSE IF path = <<>> THEN "root"
    ELSE "forward"

\* The preflight return left out.
Classify_forward_options(method, path) ==
    IF path = <<>> THEN "root" ELSE "forward"

\* The order of the two early returns (path.is_empty(), then OPTIONS).
Classify(method, path) ==
    IF path = <<>> THEN "root"
    ELSE IF method = "OPTIONS" THEN "preflight"
    ELSE "forward"

IdentBody == "Netty server deployed by Mujahid in Rust"

UnavailableBody == "Service unavailable"

CorsHeaders ==
    << <<"access-control-allow-origin", "*">>,
       <<"access-control-allow-methods", "POST, GET, OPTIONS, PUT, DELETE">>,
       <<"access-control-allow-headers", "Content-Type, Authorization, Range">> >>

CorsNames == { CorsHeaders[i][1] : i \in 1..Len(CorsHeaders) }

RECURSIVE AppendAll(_, _)
AppendAll(m, lines) ==
    IF lines = <<>> THEN m
    ELSE AppendAll(append_header(m, Head(lines)[1], Head(lines)[2]),
                   Tail(lines))

\* A header collection as parsed from the wire, line by line: a repeated
\* name keeps all its values.
ParseHeaders(lines) == AppendAll(EmptyMap, lines)

RECURSIVE InsertAll(_, _)
InsertAll(m, lines) ==
    IF lines = <<>> THEN m
    ELSE InsertAll(insert_header(m, Head(lines)[1], Head(lines)[2]),
                   Tail(lines))

\* HttpResponse::Ok().content_type("text/plain").body(..)
RootResponse ==
    [status |-> 200,
     headers |-> insert_header(EmptyMap, "content-type", "text/plain"),
     body |-> IdentBody]

\* The preflight response with one CORS header short.
PreflightResponse_two ==
    [status |-> 200,
     headers |-> AppendAll(EmptyMap, SubSeq(CorsHeaders, 1, 2)),
     body |-> ""]

\* HttpResponse::Ok().append_header(..) x3 .finish()
PreflightResponse ==
    [status |-> 200,
     headers |-> AppendAll(EmptyMap, CorsHeaders),
     body |-> ""]

\* The conversion done with insert: a repeated name keeps its last value.
IntoHeaderMap_insert(m) == InsertAll(EmptyMap, Iter(m))

\* actix HeaderMap -> http::HeaderMap (.into()): every value is appended.
IntoHeaderMap(m) == AppendAll(EmptyMap, Iter(m))

\* client.request(method, &url).headers(..): no body is attached; the
\* Payload argument is not read.
OutboundCall(method, url, headers, body) ==
    [method |-> method, url |-> url, headers |-> IntoHeaderMap(headers),
     body |-> ""]

\* The builder without the three CORS insert_header calls.
BuildResponse_nocors(status, upheaders) ==
    [status |-> status,
     headers |-> InsertAll(EmptyMap, Iter(upheaders))]

\* The builder with the CORS headers inserted after the upstream's.
BuildResponse_cors_last(status, upheaders) ==
    [status |-> status,
     headers |-> InsertAll(InsertAll(EmptyMap, Iter(upheaders)), CorsHeaders)]

\* The builder with the upstream's headers copied by append_header.
BuildResponse_append(status, upheaders) ==
    [status |-> status,
     headers |-> AppendAll(InsertAll(EmptyMap, CorsHeaders), Iter(upheaders))]

\* The builder with a status that depends on what was logged before.
BuildResponse_stateful(status, upheaders) ==
    [status |-> IF stderr # {} THEN 502 ELSE status,
     headers |-> InsertAll(InsertAll(EmptyMap, CorsHeaders), Iter(upheaders))]

\* HttpResponse::build(resp.status()), the three CORS insert_header calls,
\* then insert_header for every header of the upstream response.
BuildResponse(status, upheaders) ==
    [status |-> status,
     headers |-> InsertAll(InsertAll(EmptyMap, CorsHeaders), Iter(upheaders))]

\* The 503 carrying the error's text.
UnavailableResponse_detail(e) ==
    [status |-> 503, headers |-> EmptyMap, body |-> e]

\* HttpResponse::ServiceUnavailable().body("Service unavailable")
UnavailableResponse(e) ==
    [status |-> 503, headers |-> EmptyMap, body |-> UnavailableBody]

\* response.body(body): the builder's status and headers with this body.
WithBody(builder, body) ==
    [status |-> builder.status, headers |-> builder.headers, body |-> body]

(***************************************************************************)
(* State machine                                                           *)
(***************************************************************************)
\* Requests handled one after another on one slot.
Serial == {"r1"}

\* No request is in flight.
Quiet ==
    /\ pc = [r \in Reqs |-> "idle"]
    /\ req = [r \in Reqs |-> NoReq]
    /\ calls = [r \in Reqs |-> <<>>]
    /\ up = [r \in Reqs |-> NoUp]
    /\ response = [r \in Reqs |-> NoBuilder]
    /\ resp = [r \in Reqs |-> <<>>]
    /\ client = [r \in Reqs |-> 0]
    /\ stderr = {}
    /\ saved = NoSaved

\* env::var("PORT").or_else(|_| env::var("SERVER_PORT"))
\*     .unwrap_or_else(|_| "8080".to_string()), SERVER_PORT asked first.
ResolvePort_server_first(e) ==
    IF e.SERVER_PORT.set THEN e.SERVER_PORT.val
    ELSE IF e.PORT.set THEN e.PORT.val
    ELSE "8080"

\* env::var("PORT").or_else(|_| env::var("SERVER_PORT"))
\*     .unwrap_or_else(|_| "8080".to_string())
ResolvePort(e) ==
    IF e.PORT.set THEN e.PORT.val
    ELSE IF e.SERVER_PORT.set THEN e.SERVER_PORT.val
    ELSE "8080"

\* format!("0.0.0.0:{}", server_port)
BindAddr(port) == <<"0.0.0.0", ":", port>>

\* Port texts the address parser accepts.
ValidPorts == {"3000", "4000", "8080", "9000"}

\* The server as it runs after a start with API_GATEWAY_URL set, neither
\* port variable set and one worker: the state the request handling starts
\* from.
Init ==
    /\ api_gateway_url \in BaseUrls
    /\ phase = "serving"
    /\ Quiet
    /\ dotfile = [API_GATEWAY_URL |-> UnsetUrl, PORT |-> UnsetPort,
                  SERVER_PORT |-> UnsetPort]
    /\ env = [API_GATEWAY_URL |-> Var(api_gateway_url), PORT |-> UnsetPort,
              SERVER_PORT |-> UnsetPort]
    /\ main_pc = "serving"
    /\ server_port = "8080"
    /\ bound = BindAddr("8080")
    /\ worker_client = [w \in Workers |-> IF w = "w1" THEN 1 ELSE 0]
    /\ nclients = 1

\* The process as it is started: main has not run yet.
InitMain ==
    /\ api_gateway_url = <<>>
    /\ phase = "starting"
    /\ Quiet
    /\ dotfile \in DotFiles
    /\ env \in Envs
    /\ main_pc = "dotenv"
    /\ server_port = ""
    /\ bound = <<>>
    /\ worker_client = [w \in Workers |-> 0]
    /\ nclients = 0

\* dotenv().ok(): a variable of the .env file is set in the environment
\* unless the environment has it already.
LoadDotenv ==
    /\ main_pc = "dotenv"
    /\ env' = [k \in DOMAIN env |-> IF env[k].set THEN env[k] ELSE dotfile[k]]
    /\ main_pc' = "read_url"
    /\ UNCHANGED <<api_gateway_url, phase, pc, req, calls, up, response, resp,
                   stderr, dotfile, server_port, bound, worker_client,
                   nclients, client, saved>>

\* env::var("API_GATEWAY_URL") with a missing variable read as "".
ReadUrl_default ==
    /\ main_pc = "read_url"
    /\ api_gateway_url' = env.API_GATEWAY_URL.val
    /\ main_pc' = "read_port"
    /\ UNCHANGED <<phase, pc, req, calls, up, response, resp, stderr, dotfile,
                   env, server_port, bound, worker_client, nclients, client,
                   saved>>

\* env::var("API_GATEWAY_URL").expect(..): the value, or a panic that ends
\* the process.
ReadUrl ==
    /\ main_pc = "read_url"
    /\ IF env.API_GATEWAY_URL.set
       THEN /\ api_gateway_url' = env.API_GATEWAY_URL.val
            /\ main_pc' = "read_port"
            /\ UNCHANGED phase
       ELSE /\ main_pc' = "panicked"
            /\ phase' = "exited"
            /\ UNCHANGED api_gateway_url
    /\ UNCHANGED <<pc, req, calls, up, response, resp, stderr, dotfile, env,
                   server_port, bound, worker_client, nclients, client, saved>>

\* The port fallback chain.
ReadPort ==
    /\ main_pc = "read_port"
    /\ server_port' = ResolvePort(env)
    /\ main_pc' = "bind"
    /\ UNCHANGED <<api_gateway_url, phase, pc, req, calls, up, response, resp,
                   stderr, dotfile, env, bound, worker_client, nclients,
                   client, saved>>

\* HttpServer::new(..).bind(..) succeeds.
BindOk ==
    /\ main_pc = "bind"
    /\ server_port \in ValidPorts
    /\ bound' = BindAddr(server_port)
    /\ main_pc' = "run"
    /\ UNCHANGED <<api_gateway_url, phase, pc, req, calls, up, response, resp,
                   stderr, dotfile, env, server_port, worker_client, nclients,
                   client, saved>>

\* bind(..)? fails (the text is no port, or the port is taken): main
\* returns the error.
BindErr ==
    /\ main_pc = "bind"
    /\ main_pc' = "bind_failed"
    /\ phase' = "exited"
    /\ UNCHANGED <<api_gateway_url, pc, req, calls, up, response, resp, stderr,
                   dotfile, env, server_port, bound, worker_client, nclients,
                   client, saved>>

\* .run().await: the server runs and starts its workers.
Run ==
    /\ main_pc = "run"
    /\ main_pc' = "serving"
    /\ phase' = "serving"
    /\ UNCHANGED <<api_gateway_url, pc, req, calls, up, response, resp, stderr,
                   dotfile, env, server_port, bound, worker_client, nclients,
                   client, saved>>

\* A worker starts: it calls the factory closure, which builds its App
\* with Client::new() and a clone of the URL.
WorkerStart(w) ==
    /\ phase = "serving"
    /\ worker_client[w] = 0
    /\ nclients' = nclients + 1
    /\ worker_client' = [worker_client EXCEPT ![w] = nclients + 1]
    /\ UNCHANGED <<api_gateway_url, phase, pc, req, calls, up, response, resp,
                   stderr, dotfile, env, main_pc, server_port, bound, client,
                   saved>>

\* A caller keeps the answer to a GET, to compare a later one with it.
Remember(r) ==
    /\ pc[r] = "done"
    /\ ~saved.kept
    /\ req[r].method = "GET"
    /\ saved' = [kept |-> TRUE, req |-> req[r], up |-> up[r],
                 status |-> resp[r][1].status, body |-> resp[r][1].body,
                 logged |-> stderr]
    /\ UNCHANGED <<api_gateway_url, phase, pc, req, calls, up, response, resp,
                   stderr, startup, client>>

\* The route "/{tail:.*}" hands a request to a fresh proxy_handler
\* invocation.
DispatchOf(r, Q) ==
    /\ phase = "serving"
    /\ pc[r] = "idle"
    /\ \E q \in Q : req' = [req EXCEPT ![r] = q]
    /\ \E w \in Workers :
          /\ worker_client[w] # 0
          /\ client' = [client EXCEPT ![r] = worker_client[w]]
    /\ pc' = [pc EXCEPT ![r] = "start"]
    /\ UNCHANGED <<startup, saved, api_gateway_url, phase, calls, up,
                   response, resp, stderr>>

Dispatch(r) == DispatchOf(r, Requests)

\* The same, for a caller that sends plain requests only.
DispatchSmall(r) == DispatchOf(r, SmallRequests)

\* The returned response has been written to the client; the invocation's
\* values are dropped and the slot takes the next request.
Complete(r) ==
    /\ pc[r] = "done"
    /\ pc' = [pc EXCEPT ![r] = "idle"]
    /\ req' = [req EXCEPT ![r] = NoReq]
    /\ calls' = [calls EXCEPT ![r] = <<>>]
    /\ up' = [up EXCEPT ![r] = NoUp]
    /\ response' = [response EXCEPT ![r] = NoBuilder]
    /\ resp' = [resp EXCEPT ![r] = <<>>]
    /\ client' = [client EXCEPT ![r] = 0]
    /\ UNCHANGED <<startup, saved, api_gateway_url, phase, stderr>>

\* proxy_handler up to its first await: the two early returns, or the
\* outbound call being sent.
Handle(r) ==
    /\ pc[r] = "start"
    /\ LET path == MatchTail(req[r].uri)
           url  == FormatUrl(api_gateway_url, path)
           kind == Classify(req[r].method, path)
       IN  IF kind = "root"
           THEN /\ resp' = [resp EXCEPT ![r] = Append(@, RootResponse)]
                /\ pc' = [pc EXCEPT ![r] = "done"]
                /\ UNCHANGED calls
           ELSE IF kind = "preflight"
           THEN /\ resp' = [resp EXCEPT ![r] = Append(@, PreflightResponse)]
                /\ pc' = [pc EXCEPT ![r] = "done"]
                /\ UNCHANGED calls
           ELSE /\ calls' = [calls EXCEPT ![r] =
                                Append(@, OutboundCall(req[r].method, url,
                                                       ParseHeaders(req[r].headers),
                                                       req[r].body))]
                /\ pc' = [pc EXCEPT ![r] = "await_send"]
                /\ UNCHANGED resp
    /\ UNCHANGED <<startup, client, saved, api_gateway_url, phase, req, up, response, stderr>>

\* send().await returns Ok(resp): status and headers of the upstream are
\* in; the builder is filled and the body is awaited.
SendOkOf(r, H) ==
    /\ pc[r] = "await_send"
    /\ \E s \in UpstreamStatuses, h \in H :
          /\ up' = [up EXCEPT ![r] =
                       [kind |-> "headers", status |-> s, headers |-> h,
                        body |-> "", detail |-> ""]]
          /\ response' = [response EXCEPT ![r] =
                             BuildResponse(s, ParseHeaders(h))]
    /\ pc' = [pc EXCEPT ![r] = "await_body"]
    /\ UNCHANGED <<startup, client, saved, api_gateway_url, phase, req, calls, resp, stderr>>

SendOk(r) == SendOkOf(r, SeqsUpTo(UpHeaderLines, MaxHdrs))

\* The same, for an upstream that sends at most one header.
SendOkSmall(r) == SendOkOf(r, SmallUpHeaders)

\* send().await returns Err(e), handled as if the call were sent again.
SendErr_retry(r) ==
    /\ pc[r] = "await_send"
    /\ Len(calls[r]) < 3
    /\ calls' = [calls EXCEPT ![r] = Append(@, calls[r][1])]
    /\ UNCHANGED <<startup, client, saved, api_gateway_url, phase, pc, req, up, response, resp, stderr>>

\* send().await returns Err(e), handled without producing a response.
SendErr_silent(r) ==
    /\ pc[r] = "await_send"
    /\ \E e \in ErrorDetails :
          /\ up' = [up EXCEPT ![r] = [NoUp EXCEPT !.kind = "err", !.detail = e]]
          /\ stderr' = stderr \cup {e}
    /\ pc' = [pc EXCEPT ![r] = "done"]
    /\ UNCHANGED <<startup, client, saved, api_gateway_url, phase, req, calls, response, resp>>

\* send().await returns Err(e): the error is logged and a 503 returned.
SendErr(r) ==
    /\ pc[r] = "await_send"
    /\ \E e \in ErrorDetails :
          /\ up' = [up EXCEPT ![r] = [NoUp EXCEPT !.kind = "err", !.detail = e]]
          /\ stderr' = stderr \cup {e}
          /\ resp' = [resp EXCEPT ![r] = Append(@, UnavailableResponse(e))]
    /\ pc' = [pc EXCEPT ![r] = "done"]
    /\ UNCHANGED <<startup, client, saved, api_gateway_url, phase, req, calls, response>>

\* resp.bytes().await returns Ok(body), the body put on a builder shared by
\* the invocations in flight.
BodyOk_mixed(r) ==
    /\ pc[r] = "await_body"
    /\ \E b \in Bodies :
          /\ up' = [up EXCEPT ![r] = [@ EXCEPT !.kind = "ok", !.body = b]]
          /\ resp' = [resp EXCEPT ![r] =
                         Append(@, WithBody(response[CHOOSE o \in Reqs :
                                                response[o] # NoBuilder], b))]
    /\ pc' = [pc EXCEPT ![r] = "done"]
    /\ UNCHANGED <<startup, client, saved, api_gateway_url, phase, req, calls, response, stderr>>

\* resp.bytes().await returns Ok(body).
BodyOk(r) ==
    /\ pc[r] = "await_body"
    /\ \E b \in Bodies :
          /\ up' = [up EXCEPT ![r] = [@ EXCEPT !.kind = "ok", !.body = b]]
          /\ resp' = [resp EXCEPT ![r] = Append(@, WithBody(response[r], b))]
    /\ pc' = [pc EXCEPT ![r] = "done"]
    /\ UNCHANGED <<startup, client, saved, api_gateway_url, phase, req, calls, response, stderr>>

\* resp.bytes().await returns Err(_), answered like a transport error.
BodyErr_503(r) ==
    /\ pc[r] = "await_body"
    /\ up' = [up EXCEPT ![r] = [@ EXCEPT !.kind = "body_err"]]
    /\ resp' = [resp EXCEPT ![r] = Append(@, UnavailableResponse(""))]
    /\ pc' = [pc EXCEPT ![r] = "done"]
    /\ UNCHANGED <<startup, client, saved, api_gateway_url, phase, req, calls, response, stderr>>

\* resp.bytes().await returns Err(_): unwrap_or_default() gives empty Bytes.
BodyErr(r) ==
    /\ pc[r] = "await_body"
    /\ up' = [up EXCEPT ![r] = [@ EXCEPT !.kind = "body_err"]]
    /\ resp' = [resp EXCEPT ![r] = Append(@, WithBody(response[r], ""))]
    /\ pc' = [pc EXCEPT ![r] = "done"]
    /\ UNCHANGED <<startup, client, saved, api_gateway_url, phase, req, calls, response, stderr>>

Next ==
    \E r \in Serial :
        \/ Dispatch(r)
        \/ Handle(r)
        \/ SendOk(r)
        \/ SendErr(r)
        \/ BodyOk(r)
        \/ BodyErr(r)
        \/ Complete(r)

Spec == Init /\ [][Next]_vars

\* The whole process, from its start: main, the workers, and requests
\* handled one after another.
NextMain ==
    \/ LoadDotenv
    \/ ReadUrl
    \/ ReadPort
    \/ BindOk
    \/ BindErr
    \/ Run
    \/ \E w \in Workers : WorkerStart(w)
    \/ \E r \in Serial :
          \/ DispatchSmall(r)
          \/ Handle(r)
          \/ SendOkSmall(r)
          \/ SendErr(r)
          \/ BodyOk(r)
          \/ BodyErr(r)
          \/ Complete(r)

MainSpec == InitMain /\ [][NextMain]_vars

\* Requests in flight at the same time.
NextConc ==
    \E r \in Reqs :
        \/ DispatchSmall(r)
        \/ Handle(r)
        \/ SendOkSmall(r)
        \/ SendErr(r)
        \/ BodyOk(r)
        \/ BodyErr(r)
        \/ Complete(r)

\* Requests one after another, a caller keeping one answer.
NextIdem ==
    \E r \in Serial :
        \/ DispatchSmall(r)
        \/ Handle(r)
        \/ SendOkSmall(r)
        \/ SendErr(r)
        \/ BodyOk(r)
        \/ BodyErr(r)
        \/ Complete(r)
        \/ Remember(r)

IdemSpec == Init /\ [][NextIdem]_vars

\* The runtime polls a handler whose future is ready, and every outbound
\* call and body read eventually returns, one way or the other.
Fairness ==
    \A r \in Serial :
        /\ WF_vars(Handle(r))
        /\ WF_vars(SendOk(r) \/ SendErr(r))
        /\ WF_vars(BodyOk(r) \/ BodyErr(r))

LiveSpec == Spec /\ Fairness

\* The same for every request in flight.
FairnessConc ==
    \A r \in Reqs :
        /\ WF_vars(Handle(r))
        /\ WF_vars(SendOkSmall(r) \/ SendErr(r))
        /\ WF_vars(BodyOk(r) \/ BodyErr(r))

ConcSpec == Init /\ [][NextConc]_vars /\ FairnessConc

TypeOK ==
    /\ api_gateway_url \in BaseUrls \cup {<<>>}
    /\ phase \in {"starting", "serving", "exited"}
    /\ pc \in [Reqs -> {"idle", "start", "await_send", "await_body", "done"}]
    /\ \A r \in Reqs : req[r] \in Requests \cup {NoReq}
    /\ \A r \in Reqs : up[r].kind \in {"none", "headers", "ok", "body_err", "err"}
    /\ stderr \subseteq ErrorDetails
    /\ main_pc \in {"dotenv", "read_url", "read_port", "bind", "run",
                     "serving", "panicked", "bind_failed"}
    /\ nclients \in 0..Cardinality(Workers)
    /\ worker_client \in [Workers -> 0..Cardinality(Workers)]
    /\ client \in [Reqs -> 0..Cardinality(Workers)]

(***************************************************************************)
(* Vocabulary of the properties                                            *)
(***************************************************************************)
\* The handler invocation of r has returned.
Returned(r) == pc[r] = "done" /\ Len(resp[r]) = 1

\* Everything after the listen root: the URI without its leading slash.
AfterRoot(uri) == SubSeq(uri, 2, Len(uri))

\* r is a request the handler forwards.
Forwarded(r) ==
    /\ req[r] # NoReq
    /\ req[r].method # "OPTIONS"
    /\ MatchTail(req[r].uri) # <<>>

\* The (name, value) pairs of a collection, as a set.
Pairs(m) == UNION { { <<n, m[n][j]>> : j \in 1..Len(m[n]) } : n \in HeaderNames }

\* The (name, value) lines of a wire header sequence, as a set.
Lines(lines) == { lines[i] : i \in 1..Len(lines) }

\* The values the wire lines give to one header name, in order.
ValuesOf(lines, n) ==
    LET sel == SelectSeq(lines, LAMBDA l : l[1] = n)
    IN  [j \in 1..Len(sel) |-> sel[j][2]]

CorsPairs ==
    { <<"access-control-allow-origin", "*">>,
      <<"access-control-allow-methods", "POST, GET, OPTIONS, PUT, DELETE">>,
      <<"access-control-allow-headers", "Content-Type, Authorization, Range">> }

(***************************************************************************)
(* Properties                                                              *)
(***************************************************************************)
\* C1: every request handed to the handler gets exactly one response: a
\* response is there exactly when the invocation has returned, never two,
\* and, the outbound call and the body read returning eventually, every
\* started invocation returns with its response, whatever path it takes.
C1_ExactlyOneResponse ==
    /\ [](\A r \in Reqs :
            Len(resp[r]) = (IF pc[r] = "done" THEN 1 ELSE 0))
    /\ \A r \in Reqs : (pc[r] = "start") ~> Returned(r)

\* The body read failed and the invocation still returned a response.
C1_Witness ==
    \E r \in Reqs : Returned(r) /\ up[r].kind = "body_err"

\* C2: when the upstream answers status S, headers H, body B, the response
\* has status S, body B, and as headers H united with the three CORS
\* headers: every header of H is in the response (for a CORS name, which
\* occurs once, either H's value or the fixed one), nothing else is, and
\* each CORS name occurs once.
C2_RelayIsUnion ==
    \A r \in Reqs :
        (Returned(r) /\ up[r].kind = "ok") =>
            /\ resp[r][1].status = up[r].status
            /\ resp[r][1].body = up[r].body
            /\ \A l \in Lines(up[r].headers) :
                  l[1] \notin CorsNames => l \in Pairs(resp[r][1].headers)
            /\ Pairs(resp[r][1].headers) \subseteq
                   Lines(up[r].headers) \cup CorsPairs
            /\ \A n \in CorsNames : Len(resp[r][1].headers[n]) = 1

\* C3: every outbound call carries the inbound method, and for every header
\* name exactly the values the inbound request gave it, in their order.
C3_MethodAndHeadersVerbatim ==
    \A r \in Reqs : \A i \in 1..Len(calls[r]) :
        /\ calls[r][i].method = req[r].method
        /\ \A n \in HeaderNames :
              calls[r][i].headers[n] = ValuesOf(req[r].headers, n)

\* A POST with a header name repeated with two values has been forwarded.
C3_Witness ==
    \E r \in Reqs :
        /\ Len(calls[r]) = 1
        /\ req[r].method = "POST"
        /\ req[r].headers = << <<"accept", "v1">>, <<"accept", "v2">> >>

\* C4: the body of every outbound call is the body of the inbound request.
C4_BodyForwarded ==
    \A r \in Reqs : \A i \in 1..Len(calls[r]) :
        calls[r][i].body = req[r].body

\* C5: the target URL of every outbound call is the upstream base, a slash,
\* and everything after the listen root of the inbound URI, query string
\* included.
C5_UrlIsBaseAndPathAndQuery ==
    \A r \in Reqs : \A i \in 1..Len(calls[r]) :
        calls[r][i].url = api_gateway_url \o <<"/">> \o AfterRoot(req[r].uri)

\* C6: a transport error is answered 503 with the fixed non-empty text,
\* which is none of the error's details; the server keeps serving; and once
\* an error has been logged, a request is answered as any other time: the
\* root probe with 200 and the identification, a preflight with an empty
\* 200, an upstream answer with the upstream's status and body, another
\* transport error with the same 503.
C6_TransportError503 ==
    /\ phase = "serving"
    /\ \A r \in Reqs :
          (pc[r] = "done" /\ up[r].kind = "err") =>
              /\ Len(resp[r]) = 1
              /\ resp[r][1].status = 503
              /\ resp[r][1].body = "Service unavailable"
              /\ resp[r][1].body # ""
              /\ resp[r][1].body \notin ErrorDetails
              /\ up[r].detail \in stderr
    /\ stderr # {} =>
          \A r \in Reqs :
              pc[r] = "done" =>
                  /\ Len(resp[r]) = 1
                  /\ MatchTail(req[r].uri) = <<>> =>
                        /\ resp[r][1].status = 200
                        /\ resp[r][1].body =
                               "Netty server deployed by Mujahid in Rust"
                  /\ (MatchTail(req[r].uri) # <<>> /\ req[r].method = "OPTIONS") =>
                        /\ resp[r][1].status = 200
                        /\ resp[r][1].body = ""
                  /\ up[r].kind = "ok" =>
                        /\ resp[r][1].status = up[r].status
                        /\ resp[r][1].body = up[r].body
                  /\ Forwarded(r) => up[r].kind \in {"ok", "body_err", "err"}

\* After a transport error was logged, a later request was forwarded and
\* answered with the upstream's 404 and body.
C6_Witness ==
    \E r \in Reqs :
        /\ stderr # {}
        /\ Returned(r)
        /\ up[r].kind = "ok"
        /\ up[r].status = 404
        /\ resp[r][1].body = "b1"

\* C7 as stated: every OPTIONS request, whatever its tail, is answered 200
\* with an empty body and the three CORS headers.
C7_EveryOptions ==
    \A r \in Reqs :
        (Returned(r) /\ req[r].method = "OPTIONS") =>
            /\ resp[r][1].status = 200
            /\ resp[r][1].body = ""
            /\ Pairs(resp[r][1].headers) = CorsPairs
            /\ \A n \in CorsNames : Len(resp[r][1].headers[n]) = 1

\* C7, amended: every OPTIONS request with a non-empty tail is answered 200
\* with an empty body and exactly the three CORS headers, each once.
C7_OptionsNonEmptyTail ==
    \A r \in Reqs :
        (Returned(r) /\ req[r].method = "OPTIONS"
                     /\ MatchTail(req[r].uri) # <<>>) =>
            /\ resp[r][1].status = 200
            /\ resp[r][1].body = ""
            /\ Pairs(resp[r][1].headers) = CorsPairs
            /\ \A n \in CorsNames : Len(resp[r][1].headers[n]) = 1

\* An OPTIONS request for /a/b has been answered.
C7_Witness ==
    \E r \in Reqs :
        /\ Returned(r)
        /\ req[r].method = "OPTIONS"
        /\ req[r].uri = <<"/", "a", "/", "b">>

\* C8: every request with empty tail, OPTIONS included, is answered 200
\* with the identification text.
C8_RootProbe ==
    \A r \in Reqs :
        (pc[r] = "done" /\ MatchTail(req[r].uri) = <<>>) =>
            /\ Len(resp[r]) = 1
            /\ resp[r][1].status = 200
            /\ resp[r][1].body = "Netty server deployed by Mujahid in Rust"

\* An OPTIONS request for the root has been answered.
C8_Witness ==
    \E r \in Reqs :
        /\ Returned(r)
        /\ req[r].method = "OPTIONS"
        /\ req[r].uri = <<"/">>

\* C9: an outbound call exists only for a request that is not OPTIONS and
\* has a non-empty tail; a root probe or a preflight returns with no call
\* issued.
C9_NoCallUnlessForwarded ==
    \A r \in Reqs :
        /\ calls[r] # <<>> => Forwarded(r)
        /\ (pc[r] = "done" /\ ~Forwarded(r)) => calls[r] = <<>>

\* A preflight for /a has returned without any outbound call.
C9_Witness ==
    \E r \in Reqs :
        /\ Returned(r)
        /\ req[r].method = "OPTIONS"
        /\ req[r].uri = <<"/", "a">>
        /\ calls[r] = <<>>

\* C10: a forwarded request has exactly one outbound call from the moment
\* it is sent to the moment the handler returns, also when the call fails
\* or the body read fails; no request ever has two.
C10_OneAttempt ==
    \A r \in Reqs :
        /\ Len(calls[r]) <= 1
        /\ (Forwarded(r) /\ pc[r] \in {"await_send", "await_body", "done"}) =>
              Len(calls[r]) = 1

\* A forwarded request ended in a transport error after its one call.
C10_Witness ==
    \E r \in Reqs :
        /\ Returned(r)
        /\ up[r].kind = "err"
        /\ Len(calls[r]) = 1

\* The last value the wire lines give to a header name that they carry.
LastValueOf(lines, n) == ValuesOf(lines, n)[Len(ValuesOf(lines, n))]

\* The invocation of r returned on the forward-success path (the upstream's
\* status and headers came in; the body was read or its read failed).
Relayed(r) == Returned(r) /\ up[r].kind \in {"ok", "body_err"}

\* C11: when the upstream's status and headers came in and the body read
\* failed, the handler returns one response with the upstream's status, an
\* empty body, each CORS name once and every upstream header name present.
C11_BodyReadFailureKeepsStatus ==
    \A r \in Reqs :
        (pc[r] = "done" /\ up[r].kind = "body_err") =>
            /\ Len(resp[r]) = 1
            /\ resp[r][1].status = up[r].status
            /\ resp[r][1].body = ""
            /\ \A n \in CorsNames : Len(resp[r][1].headers[n]) = 1
            /\ \A l \in Lines(up[r].headers) : resp[r][1].headers[l[1]] # <<>>

\* The body read of a 404 carrying a set-cookie failed and the invocation
\* returned.
C11_Witness ==
    \E r \in Reqs :
        /\ Returned(r)
        /\ up[r].kind = "body_err"
        /\ up[r].status = 404
        /\ up[r].headers = << <<"set-cookie", "v1">> >>

\* C12 as stated: every response the handler returns, on every path,
\* carries the three CORS header names.
C12_CorsOnEveryResponse ==
    \A r \in Reqs :
        Returned(r) => \A n \in CorsNames : resp[r][1].headers[n] # <<>>

\* C12, amended: the responses of the preflight path and of the
\* forward-success path carry each of the three CORS header names once
\* (with the fixed value, or the upstream's where it sent that name); the
\* root-probe response and the transport-failure response carry none.
C12_CorsOnPreflightAndRelay ==
    \A r \in Reqs :
        Returned(r) =>
            /\ (Relayed(r) \/ (req[r].method = "OPTIONS"
                               /\ MatchTail(req[r].uri) # <<>>)) =>
                  \A n \in CorsNames :
                      /\ Len(resp[r][1].headers[n]) = 1
                      /\ <<n, resp[r][1].headers[n][1]>> \in
                             CorsPairs \cup Lines(up[r].headers)
            /\ (MatchTail(req[r].uri) = <<>> \/ up[r].kind = "err") =>
                  \A n \in CorsNames : resp[r][1].headers[n] = <<>>

\* An upstream 404 without headers has been relayed.
C12_Witness ==
    \E r \in Reqs :
        /\ Returned(r)
        /\ up[r].kind = "ok"
        /\ up[r].status = 404
        /\ up[r].headers = <<>>

\* C18: on the forward-success path a CORS header has its fixed value
\* unless the upstream response carries that name, and then it has the
\* upstream's (last) value instead.
C18_CorsFirstUpstreamWins ==
    \A r \in Reqs :
        Relayed(r) =>
            \A i \in 1..Len(CorsHeaders) :
                resp[r][1].headers[CorsHeaders[i][1]] =
                    IF ValuesOf(up[r].headers, CorsHeaders[i][1]) = <<>>
                    THEN << CorsHeaders[i][2] >>
                    ELSE << LastValueOf(up[r].headers, CorsHeaders[i][1]) >>

\* The upstream sent its own access-control-allow-origin and the response
\* carries that value.
C18_Witness ==
    \E r \in Reqs :
        /\ Relayed(r)
        /\ <<"access-control-allow-origin", "https://site">> \in Lines(up[r].headers)
        /\ resp[r][1].headers["access-control-allow-origin"] = <<"https://site">>

OwnAnswer(r) ==
    LET a == resp[r][1]
    IN  IF MatchTail(req[r].uri) = <<>>
        THEN /\ a.status = 200
             /\ a.body = "Netty server deployed by Mujahid in Rust"
        ELSE IF req[r].method = "OPTIONS"
        THEN /\ a.status = 200
             /\ a.body = ""
             /\ a.headers["set-cookie"] = <<>>
        ELSE IF up[r].kind = "err"
        THEN /\ a.status = 503
             /\ a.body = "Service unavailable"
             /\ a.headers["set-cookie"] = <<>>
        ELSE /\ up[r].kind \in {"ok", "body_err"}
             /\ a.status = up[r].status
             /\ a.body = (IF up[r].kind = "ok" THEN up[r].body ELSE "")
             /\ a.headers["set-cookie"] = ValuesOf(up[r].headers, "set-cookie")

\* C13: with requests in flight at the same time, every returned response
\* is the one owed to its own request and its own upstream outcome; a step
\* of one invocation changes nothing of another; and every started
\* invocation returns.
C13_ConcurrentRequestsIsolated ==
    /\ [](\A r \in Reqs : Returned(r) => OwnAnswer(r))
    /\ [][\A r \in Reqs :
            pc'[r] = pc[r] =>
                /\ req'[r] = req[r]
                /\ calls'[r] = calls[r]
                /\ up'[r] = up[r]
                /\ response'[r] = response[r]
                /\ resp'[r] = resp[r]]_vars
    /\ \A r \in Reqs : (pc[r] = "start") ~> Returned(r)

\* Two invocations have returned side by side: one relayed a 404 with a
\* body and a cookie, the other hit a transport error.
C13_Witness ==
    /\ Returned("r1") /\ Returned("r2")
    /\ up["r1"].kind = "ok" /\ up["r1"].status = 404 /\ up["r1"].body = "b1"
    /\ up["r1"].headers = << <<"set-cookie", "v1">> >>
    /\ up["r2"].kind = "err"

\* C14: a single Client is constructed in the life of the process, no
\* request is handled before it exists, and every worker and every handler
\* invocation holds that one.
C14_OneSharedClient ==
    /\ nclients <= 1
    /\ \A w \in Workers : worker_client[w] \in {0, 1}
    /\ \A r \in Reqs : pc[r] # "idle" => client[r] = 1

\* C15: once the .env file is loaded, a process whose API_GATEWAY_URL is
\* not set has no socket bound, serves nothing, and is at the read of the
\* variable or has ended there.
C15_NoBindWithoutUrl ==
    (main_pc # "dotenv" /\ ~env.API_GATEWAY_URL.set) =>
        /\ bound = <<>>
        /\ phase # "serving"
        /\ main_pc \in {"read_url", "panicked"}
        /\ main_pc = "panicked" => phase = "exited"
        /\ \A w \in Workers : worker_client[w] = 0
        /\ \A r \in Reqs : pc[r] = "idle" /\ resp[r] = <<>>

\* The process ended at the missing variable, nothing bound.
C15_Witness ==
    /\ main_pc = "panicked"
    /\ phase = "exited"
    /\ ~env.API_GATEWAY_URL.set
    /\ bound = <<>>

\* C16: the port main resolves is PORT's value if PORT is set, else
\* SERVER_PORT's if that is set, else 8080; a bound listener is bound to
\* 0.0.0.0 and that port; the process never ends at the resolution (a
\* panic is the missing URL only).
C16_PortFallback ==
    LET port == IF env.PORT.set THEN env.PORT.val
                ELSE IF env.SERVER_PORT.set THEN env.SERVER_PORT.val
                ELSE "8080"
    IN  /\ main_pc \in {"bind", "run", "serving", "bind_failed"} =>
              server_port = port
        /\ bound # <<>> => bound = <<"0.0.0.0", ":", port>>
        /\ main_pc = "serving" => bound # <<>>
        /\ main_pc = "panicked" => ~env.API_GATEWAY_URL.set

\* With SERVER_PORT alone set, to 9000, the server is bound to 0.0.0.0:9000.
C16_Witness ==
    /\ main_pc = "serving"
    /\ ~env.PORT.set
    /\ env.SERVER_PORT = Var("9000")
    /\ bound = <<"0.0.0.0", ":", "9000">>

\* Two upstream outcomes are the same answer (the text of an error apart).
SameAnswer(u, v) ==
    /\ u.kind = v.kind
    /\ u.status = v.status
    /\ u.headers = v.headers
    /\ u.body = v.body

\* C17: a GET equal to one answered before, the upstream answering the same
\* way, gets the same status and the same body, whatever was handled in
\* between.
C17_SameGetSameAnswer ==
    \A r \in Reqs :
        (saved.kept /\ Returned(r) /\ req[r] = saved.req
                    /\ SameAnswer(up[r], saved.up)) =>
            /\ resp[r][1].status = saved.status
            /\ resp[r][1].body = saved.body

\* A GET answered by the upstream was kept, a transport error was logged,
\* and the same GET has been answered by the upstream the same way again.
C17_Witness ==
    \E r \in Reqs :
        /\ saved.kept
        /\ saved.up.kind = "ok"
        /\ saved.logged = {}
        /\ stderr # {}
        /\ Returned(r)
        /\ req[r] = saved.req
        /\ SameAnswer(up[r], saved.up)
        /\ calls[r] # <<>>

\* C19: whenever the server serves, the upstream base URL is not empty, and
\* no outbound URL is a bare slash and tail.
C19_ServingTargetNonEmpty ==
    /\ phase = "serving" => api_gateway_url # <<>>
    /\ \A r \in Reqs : \A i \in 1..Len(calls[r]) :
          calls[r][i].url # <<"/">> \o MatchTail(req[r].uri)

====
